---- MODULE Spec2Model ----
(***************************************************************************)
(* A state-machine model of luminate's data helpers (src/src/util.py):     *)
(*   parse_otu_table, parse_event_table, format_observations,              *)
(*   load_observations and write_table.                                    *)
(*                                                                         *)
(* Conventions.  Python indices are 0-based, TLA+ sequences 1-based: the   *)
(* Python element x[i] is x[i+1] here; loop counters (idx, day_idx, ...)   *)
(* keep their Python value.  Float values are modelled by the integers     *)
(* they denote; texts are strings, turned into numbers by FloatOf (the     *)
(* builtin float) and back by FloatStr (the builtin str of a float).       *)
(* np.argsort is called with its default kind, which is not stable: it is  *)
(* any permutation that sorts its keys.                                    *)
(***************************************************************************)
EXTENDS Integers, Sequences, FiniteSets, TLC

VARIABLES
  \* parse_otu_table
  has_rownames, n_row, n_col, idx, line, otu_pc, otu_seq_id, otu_table,
  \* parse_event_table
  has_header, event_filename, lines, ev_n_col, ev_n_row, ev_idx, ev_pc,
  event_names, event_to_int, event_seq_id, events,
  \* the diagnostic stream
  stderr,
  \* format_observations
  fmt_pc, sorted_table, sorted_seq_id, IDs, s_idx, days, observations,
  effects, sub_events, e_pos, Y, U, T,
  \* write_table
  wt_pc, predictions, in_table, out_table, w_j, saved

otuVars == <<has_rownames, n_row, n_col, idx, line, otu_pc, otu_seq_id, otu_table>>
evVars  == <<has_header, event_filename, lines, ev_n_col, ev_n_row, ev_idx, ev_pc,
             event_names, event_to_int, event_seq_id, events>>
fmtVars == <<fmt_pc, sorted_table, sorted_seq_id, IDs, s_idx, days, observations,
             effects, sub_events, e_pos, Y, U, T>>
wtVars  == <<wt_pc, predictions, in_table, out_table, w_j, saved>>
vars    == <<otuVars, evVars, stderr, fmtVars, wtVars>>

---------------------------------------------------------------------------
\* Bounds of the model.

\* parse_otu_table: data columns per line, and lines after the header.
MaxCols == 2
MaxRows == 3
\* parse_event_table: lines of the event file.
MaxEventLines == 3

---------------------------------------------------------------------------
\* Generic helpers.

SeqsUpTo(S, lo, hi) == UNION {[1..n -> S] : n \in lo..hi}

RECURSIVE SumSeq(_)
SumSeq(s) == IF s = <<>> THEN 0 ELSE Head(s) + SumSeq(Tail(s))

\* The indices 1..n in order.
IndexSeq(n) == [i \in 1..n |-> i]

Zeros(n) == [i \in 1..n |-> 0]

---------------------------------------------------------------------------
\* Texts and numbers.

\* float(text): the number a text denotes; texts outside the domain make
\* float raise ValueError.
FloatOf ==
  [t \in {"-1", "0", "1", "2", "3", "4", "5", "6", "7", "8", "9",
          "1.0", "2.0", "3.0"} |->
     CASE t = "-1" -> -1
       [] t = "0" -> 0
       [] t = "1" -> 1
       [] t = "2" -> 2
       [] t = "3" -> 3
       [] t = "4" -> 4
       [] t = "5" -> 5
       [] t = "6" -> 6
       [] t = "7" -> 7
       [] t = "8" -> 8
       [] t = "9" -> 9
       [] t = "1.0" -> 1
       [] t = "2.0" -> 2
       [] t = "3.0" -> 3]

IsFloatText(t) == t \in DOMAIN FloatOf

\* str(x) of a float x (the shortest repr: 1.0 prints as "1.0").
FloatStr(x) ==
  CASE x = 0 -> "0.0"
    [] x = 1 -> "1.0"
    [] x = 2 -> "2.0"
    [] x = 3 -> "3.0"
    [] x = 4 -> "4.0"
    [] x = 5 -> "5.0"
    [] x = 6 -> "6.0"
    [] x = 7 -> "7.0"
    [] x = 8 -> "8.0"
    [] x = 9 -> "9.0"
    [] OTHER -> "-1.0"

---------------------------------------------------------------------------
\* parse_otu_table(filename, sep, has_rownames)

\* Subject identifiers, in lexicographic order.
SubjectIDs == <<"A", "B">>
IdSet == {SubjectIDs[i] : i \in 1..Len(SubjectIDs)}

\* Cell texts of an abundance file.
CellTexts == {"-1", "0", "2", "x"}

\* A line of the file after strip("\n").split(sep): a row label and cells.
OtuFileLines == {<<"otu">> \o c : c \in SeqsUpTo(CellTexts, 1, MaxCols)}
OtuHeaders   == {<<"id">> \o c : c \in SeqsUpTo(IdSet, 1, MaxCols)}

\* The fields of a line that hold data (line 57-60).
DataFields(raw) == IF has_rownames THEN Tail(raw) ELSE raw

OtuIdle ==
  /\ has_rownames = TRUE /\ n_row = 0 /\ n_col = 0 /\ idx = 0 /\ line = <<>>
  /\ otu_pc = "idle" /\ otu_seq_id = <<>> /\ otu_table = <<>>

\* Lines 42-54: the file is read, the header gives n_col and seq_id, the
\* table starts as zeros((n_row, n_col)).
InitOtu ==
  /\ has_rownames \in BOOLEAN
  /\ n_row \in 0..MaxRows
  /\ \E header \in OtuHeaders:
       /\ n_col = IF has_rownames THEN Len(header) - 1 ELSE Len(header)
       /\ otu_seq_id = DataFields(header)
  /\ otu_table = [r \in 1..n_row |-> Zeros(n_col)]
  /\ idx = 0
  /\ line = <<>>
  /\ otu_pc = "loop"

\* print_error_and_die(error_msg): the message goes to stderr, exit(1).
print_error_and_die(error_msg) ==
  stderr' = Append(stderr, error_msg)

\* Line 73: rows checked for negative entries.
NegativeChecked(i) == i > 1

\* One iteration of the loop of lines 56-79, on the next line of the file.
ParseOtuLine ==
  /\ otu_pc = "loop"
  /\ idx < n_row
  /\ \E raw \in OtuFileLines:
       LET fields == DataFields(raw)
           row    == [c \in 1..Len(fields) |-> FloatOf[fields[c]]]
       IN  /\ line' = fields
           /\ IF Len(fields) # n_col
                THEN \* lines 64-66: "... has" + n_col with n_col an int
                     \* raises TypeError before print_error_and_die is called
                     /\ otu_pc' = "TypeError"
                     /\ UNCHANGED <<stderr, otu_table, idx>>
              ELSE IF \E c \in 1..Len(fields): ~IsFloatText(fields[c])
                THEN /\ print_error_and_die(<<"invalid character in row", idx>>)
                     /\ otu_pc' = "exit"
                     /\ UNCHANGED <<otu_table, idx>>
              ELSE IF NegativeChecked(idx) /\ \E c \in 1..Len(row): row[c] < 0
                THEN /\ print_error_and_die(<<"row has negative entry", idx>>)
                     /\ otu_pc' = "exit"
                     /\ UNCHANGED <<otu_table, idx>>
              ELSE /\ stderr' = IF SumSeq(row) = 0
                                  THEN Append(stderr, <<"Warning: row has no nonzero entries", idx>>)
                                  ELSE stderr
                   /\ otu_table' = [otu_table EXCEPT ![idx + 1] = row]
                   /\ idx' = idx + 1
                   /\ otu_pc' = "loop"
  /\ UNCHANGED <<has_rownames, n_row, n_col, otu_seq_id>>
  /\ UNCHANGED <<evVars, fmtVars, wtVars>>

\* Line 81.
ReturnOtuTable ==
  /\ otu_pc = "loop"
  /\ idx = n_row
  /\ otu_pc' = "returned"
  /\ UNCHANGED <<has_rownames, n_row, n_col, idx, line, otu_seq_id, otu_table>>
  /\ UNCHANGED <<evVars, stderr, fmtVars, wtVars>>

---------------------------------------------------------------------------
\* parse_event_table(filename, sep, has_header)

EventTypeNames == {"abx", "diet", "cdiff"}

\* A line of the event file after strip("\n").split(sep): subject, event
\* type, start day, end day and, optionally, magnitude.
EventFileLines ==
  LET four == {<<s, k, a, b>> : s \in IdSet, k \in EventTypeNames,
                                a \in {"1", "x"}, b \in {"2", "x"}}
  IN  four \cup {l \o <<m>> : l \in four, m \in {"3", "x"}}

EvIdle ==
  /\ has_header = TRUE /\ event_filename = "" /\ lines = <<>> /\ ev_n_col = 0
  /\ ev_n_row = 0 /\ ev_idx = 0 /\ ev_pc = "idle" /\ event_names = <<>>
  /\ event_to_int = <<>> /\ event_seq_id = <<>> /\ events = <<>>

\* Lines 114-122: n_col is the column count of the first line read.
InitEvents ==
  /\ has_header \in BOOLEAN
  /\ event_filename = "events.csv"
  /\ lines = <<>>
  /\ ev_n_col \in {4, 5}
  /\ ev_n_row \in 1..MaxEventLines
  /\ ev_idx = 0
  /\ ev_pc = "pass1"
  /\ event_names = <<>>
  /\ event_to_int = <<>>
  /\ event_seq_id = <<>>
  /\ events = <<>>

\* Lines 141-142.
AddEventTypeNoCheck(event_types, name) == Append(event_types, name)

AddEventType(event_types, name) ==
  IF \E i \in 1..Len(event_types): event_types[i] = name
    THEN event_types
    ELSE Append(event_types, name)

\* Line 145: dict([(event, i) for i, event in enumerate(event_types)]); a
\* key given twice keeps its last value.
DictOfEnumerate(event_types) ==
  [name \in {event_types[i] : i \in 1..Len(event_types)} |->
     (CHOOSE i \in 1..Len(event_types):
        /\ event_types[i] = name
        /\ \A j \in 1..Len(event_types): event_types[j] = name => j <= i) - 1]

\* One iteration of the first loop (lines 124-142), on the next line of the file.
FirstPassLine ==
  /\ ev_pc = "pass1"
  /\ ev_idx < ev_n_row
  /\ \E raw \in EventFileLines:
       LET row_num == IF has_header THEN ev_idx + 1 ELSE ev_idx
       IN  /\ ev_idx = 0 => Len(raw) = ev_n_col
           /\ lines' = Append(lines, raw)
           /\ IF Len(raw) # ev_n_col
                THEN /\ print_error_and_die(<<"event table: wrong column count in row", row_num>>)
                     /\ ev_pc' = "exit"
                     /\ UNCHANGED <<event_names, ev_idx>>
              ELSE IF ~IsFloatText(raw[3]) \/ ~IsFloatText(raw[4])
                THEN /\ print_error_and_die(<<"event table: invalid start day or end day in row", row_num>>)
                     /\ ev_pc' = "exit"
                     /\ UNCHANGED <<event_names, ev_idx>>
              ELSE /\ event_names' = AddEventType(event_names, raw[2])
                   /\ ev_idx' = ev_idx + 1
                   /\ UNCHANGED <<ev_pc, stderr>>
  /\ UNCHANGED <<has_header, event_filename, ev_n_col, ev_n_row, event_to_int,
                 event_seq_id, events>>
  /\ UNCHANGED <<otuVars, fmtVars, wtVars>>

\* Lines 145-147.
BuildEventIndex ==
  /\ ev_pc = "pass1"
  /\ ev_idx = ev_n_row
  /\ event_to_int' = DictOfEnumerate(event_names)
  /\ event_seq_id' = <<>>
  /\ events' = [r \in 1..ev_n_row |-> Zeros(4)]
  /\ ev_idx' = 0
  /\ ev_pc' = "pass2"
  /\ UNCHANGED <<has_header, event_filename, lines, ev_n_col, ev_n_row, event_names>>
  /\ UNCHANGED <<otuVars, stderr, fmtVars, wtVars>>

\* One iteration of the second loop (lines 149-157).
SecondPassLine ==
  /\ ev_pc = "pass2"
  /\ ev_idx < ev_n_row
  /\ LET l == lines[ev_idx + 1]
     IN  IF Len(l) > 4 /\ ~IsFloatText(l[5])
           THEN \* float(line[4]) raises ValueError, which nothing catches
                /\ ev_pc' = "ValueError"
                /\ UNCHANGED <<event_seq_id, events, ev_idx>>
           ELSE /\ event_seq_id' = Append(event_seq_id, l[1])
                /\ events' = [events EXCEPT ![ev_idx + 1] =
                                <<event_to_int[l[2]], FloatOf[l[3]], FloatOf[l[4]],
                                  IF Len(l) > 4 THEN FloatOf[l[5]] ELSE 1>>]
                /\ ev_idx' = ev_idx + 1
                /\ UNCHANGED ev_pc
  /\ UNCHANGED <<has_header, event_filename, lines, ev_n_col, ev_n_row,
                 event_names, event_to_int>>
  /\ UNCHANGED <<otuVars, stderr, fmtVars, wtVars>>

\* Line 159.
ReturnEvents ==
  /\ ev_pc = "pass2"
  /\ ev_idx = ev_n_row
  /\ ev_pc' = "returned"
  /\ UNCHANGED <<has_header, event_filename, lines, ev_n_col, ev_n_row, ev_idx,
                 event_names, event_to_int, event_seq_id, events>>
  /\ UNCHANGED <<otuVars, stderr, fmtVars, wtVars>>

---------------------------------------------------------------------------
\* format_observations and write_table at rest.

FmtIdle ==
  /\ fmt_pc = "idle" /\ sorted_table = <<>> /\ sorted_seq_id = <<>> /\ IDs = <<>>
  /\ s_idx = 0 /\ days = <<>> /\ observations = <<>> /\ effects = <<>>
  /\ sub_events = <<>> /\ e_pos = 0 /\ Y = <<>> /\ U = <<>> /\ T = <<>>

WtIdle ==
  /\ wt_pc = "idle" /\ predictions = <<>> /\ in_table = <<>>
  /\ out_table = <<>> /\ w_j = 0 /\ saved = <<>>

---------------------------------------------------------------------------
\* format_observations(otu_table, otu_seq_id, event_table, event_seq_id,
\*                     event_to_int), as load_observations calls it.

\* Bounds of the inputs of format_observations.
\* Alignment runs: columns of the abundance table, records of the event table.
MaxColumns == 3
AlignMaxEvents == 1
\* Encoding runs with at most one event record: largest day, grid length.
MaxDay == 4
MaxLen == 3
\* Encoding runs with several event records.
MultiMaxDay == 3
MultiMaxLen == 3
MaxEvents == 2
\* Event types of an event table.
MaxTypes == 2

\* Event type names in the order a file introduces them.
TypeOrder == <<"abx", "diet", "cdiff">>

\* The rank of a subject identifier in lexicographic order.
IdRank(id) == CHOOSE i \in 1..Len(SubjectIDs): SubjectIDs[i] = id

SetMin(S) == CHOOSE x \in S: \A y \in S: x <= y

\* np.argsort(keys), default kind: every order of the indices that sorts
\* the keys; equal keys come in any order.
RECURSIVE ArgSortsFrom(_, _)
ArgSortsFrom(keys, remaining) ==
  IF remaining = {} THEN {<<>>}
  ELSE LET least == {i \in remaining: \A j \in remaining: keys[i] <= keys[j]}
       IN  UNION {{<<i>> \o rest : rest \in ArgSortsFrom(keys, remaining \ {i})}
                  : i \in least}

ArgSort(keys) == ArgSortsFrom(keys, 1..Len(keys))

\* a[:, order]: the columns of a matrix (a sequence of rows) in the given order.
TakeColumns(a, order) == [r \in 1..Len(a) |-> [j \in 1..Len(order) |-> a[r][order[j]]]]

\* np.unique(otu_seq_id): the distinct identifiers, sorted.
Unique(ids) ==
  SelectSeq(SubjectIDs, LAMBDA x: \E c \in 1..Len(ids): ids[c] = x)

\* The positions of a value in a sequence, in order (a boolean mask
\* np.array(ids) == s_id used as an index).
PositionsOf(ids, s_id) == SelectSeq(IndexSeq(Len(ids)), LAMBDA c: ids[c] = s_id)

\* Lines 187-196: one row of counts per entry of days; for a day that
\* several columns share, the first of them in the sorted order.
ObservationsDistinctDays(seq, dys) ==
  LET keep == SelectSeq(IndexSeq(Len(dys)), LAMBDA d: \A j \in 1..(d - 1): dys[j] # dys[d])
  IN  [d \in 1..Len(keep) |-> [r \in 1..(Len(seq) - 1) |-> seq[r + 1][keep[d]]]]

Observations(seq, dys) ==
  [d \in 1..Len(dys) |->
     LET first == SetMin({j \in 1..Len(dys): dys[j] = dys[d]})
     IN  [r \in 1..(Len(seq) - 1) |-> seq[r + 1][first]]]

\* The warnings of lines 184-185 and 192-193 for one subject.
RECURSIVE DuplicateWarnings(_, _, _)
DuplicateWarnings(s_id, dys, d) ==
  IF d > Len(dys) THEN <<>>
  ELSE (IF Cardinality({j \in 1..Len(dys): dys[j] = dys[d]}) > 1
          THEN <<<<"Warning: multiple observations for time point", s_id, dys[d]>>>>
          ELSE <<>>)
       \o DuplicateWarnings(s_id, dys, d + 1)

SubjectWarnings(s_id, dys) ==
  (IF Len(dys) <= 1 THEN <<<<"Warning: only 1 time point", s_id, 0>>>> ELSE <<>>)
  \o DuplicateWarnings(s_id, dys, 1)

\* Lines 215 and 217: whether an event marks the slot of a day that is not
\* the last one.
SlotWithinOnly(day, next_day, start_day, end_day) ==
  day >= start_day /\ day <= end_day

SlotStrict(day, next_day, start_day, end_day) ==
  IF day > start_day /\ day <= end_day THEN TRUE
  ELSE start_day >= day /\ end_day <= next_day /\ start_day < next_day

SlotQualifies(day, next_day, start_day, end_day) ==
  IF day >= start_day /\ day <= end_day THEN TRUE
  ELSE start_day >= day /\ end_day <= next_day /\ start_day < next_day

\* Line 220: the value written to the last day's cell of the event's column.
LastCellEnd(old, last_day, start_day, event_size) ==
  IF start_day <= last_day THEN event_size ELSE 0

LastCell(old, last_day, start_day, event_size) ==
  IF start_day = last_day THEN event_size ELSE 0

\* Lines 203-220: the effect matrix after one event record.
EncodeEvent(eff, dys, event) ==
  LET n == Len(dys)
      event_idx == event[1]
      start_day == event[2]
      end_day == event[3]
      event_size == event[4]
  IN  [i \in 1..n |-> [k \in 1..Len(eff[i]) |->
        IF k # event_idx + 1 THEN eff[i][k]
        ELSE IF i < n
          THEN IF SlotQualifies(dys[i], dys[i + 1], start_day, end_day)
                 THEN event_size ELSE eff[i][k]
          ELSE LastCell(eff[i][k], dys[n], start_day, event_size)]]

\* Lines 199 and 223: the effect matrix before any event.
InitialEffects(dys) ==
  IF event_filename # ""
    THEN [i \in 1..Len(dys) |-> Zeros(Cardinality(DOMAIN event_to_int))]
    ELSE [i \in 1..Len(dys) |-> Zeros(1)]

\* Lines 174-177.
SortBySeq ==
  /\ fmt_pc = "begin"
  /\ \E sort_by_seq \in ArgSort([c \in 1..Len(otu_seq_id) |-> IdRank(otu_seq_id[c])]):
       /\ sorted_table' = TakeColumns(otu_table, sort_by_seq)
       /\ sorted_seq_id' = [c \in 1..Len(otu_seq_id) |-> otu_seq_id[sort_by_seq[c]]]
  /\ IDs' = Unique(otu_seq_id)
  /\ s_idx' = 0
  /\ fmt_pc' = "subject"
  /\ UNCHANGED <<days, observations, effects, sub_events, e_pos, Y, U, T>>
  /\ UNCHANGED <<otuVars, evVars, stderr, wtVars>>

\* Lines 178-200: the subject's columns, sorted by day; its counts; its
\* zero effect matrix and its event records.
AlignSubject ==
  /\ fmt_pc = "subject"
  /\ s_idx < Len(IDs)
  /\ LET s_id == IDs[s_idx + 1]
         cols == PositionsOf(sorted_seq_id, s_id)
         seq0 == TakeColumns(sorted_table, cols)
     IN  \E sort_by_day \in ArgSort(seq0[1]):
           LET seq == TakeColumns(seq0, sort_by_day)
           IN  /\ days' = seq[1]
               /\ observations' = Observations(seq, seq[1])
               /\ effects' = InitialEffects(seq[1])
               /\ stderr' = stderr \o SubjectWarnings(s_id, seq[1])
               /\ sub_events' = IF event_filename # ""
                                  THEN LET rows == PositionsOf(event_seq_id, s_id)
                                       IN  [j \in 1..Len(rows) |-> events[rows[j]]]
                                  ELSE <<>>
  /\ e_pos' = 0
  /\ fmt_pc' = "events"
  /\ UNCHANGED <<sorted_table, sorted_seq_id, IDs, s_idx, Y, U, T>>
  /\ UNCHANGED <<otuVars, evVars, wtVars>>

\* One iteration of the loop of lines 202-220.
EncodeNextEvent ==
  /\ fmt_pc = "events"
  /\ e_pos < Len(sub_events)
  /\ effects' = EncodeEvent(effects, days, sub_events[e_pos + 1])
  /\ e_pos' = e_pos + 1
  /\ UNCHANGED <<fmt_pc, sorted_table, sorted_seq_id, IDs, s_idx, days, observations,
                 sub_events, Y, U, T>>
  /\ UNCHANGED <<otuVars, evVars, stderr, wtVars>>

\* Lines 225-227.
AppendSubject ==
  /\ fmt_pc = "events"
  /\ e_pos = Len(sub_events)
  /\ Y' = Append(Y, observations)
  /\ U' = Append(U, effects)
  /\ T' = Append(T, days)
  /\ s_idx' = s_idx + 1
  /\ fmt_pc' = "subject"
  /\ UNCHANGED <<sorted_table, sorted_seq_id, IDs, days, observations, effects,
                 sub_events, e_pos>>
  /\ UNCHANGED <<otuVars, evVars, stderr, wtVars>>

\* Line 229.
ReturnObservations ==
  /\ fmt_pc = "subject"
  /\ s_idx = Len(IDs)
  /\ fmt_pc' = "returned"
  /\ UNCHANGED <<sorted_table, sorted_seq_id, IDs, s_idx, days, observations,
                 effects, sub_events, e_pos, Y, U, T>>
  /\ UNCHANGED <<otuVars, evVars, stderr, wtVars>>

\* The state in which load_observations (lines 241-255) calls
\* format_observations: both parsers have returned (the event parser only
\* if a file name was given).
ParsedOtu(ids, tbl) ==
  /\ has_rownames = TRUE /\ n_row = Len(tbl) /\ n_col = Len(ids) /\ idx = Len(tbl)
  /\ line = <<>> /\ otu_pc = "returned" /\ otu_seq_id = ids /\ otu_table = tbl

NoEventFile ==
  /\ has_header = TRUE /\ event_filename = "" /\ lines = <<>> /\ ev_n_col = 0
  /\ ev_n_row = 0 /\ ev_idx = 0 /\ ev_pc = "idle" /\ event_names = <<>>
  /\ event_to_int = <<>> /\ event_seq_id = <<>> /\ events = <<>>

ParsedEvents(n_types, ids, evs) ==
  /\ has_header = TRUE /\ event_filename = "events.csv" /\ lines = <<>>
  /\ ev_n_col = 5 /\ ev_n_row = Len(evs) /\ ev_idx = Len(evs) /\ ev_pc = "returned"
  /\ event_names = SubSeq(TypeOrder, 1, n_types)
  /\ event_to_int = [name \in {TypeOrder[i] : i \in 1..n_types} |->
                       (CHOOSE i \in 1..n_types: TypeOrder[i] = name) - 1]
  /\ event_seq_id = ids
  /\ events = evs

FmtBegin ==
  /\ fmt_pc = "begin" /\ sorted_table = <<>> /\ sorted_seq_id = <<>> /\ IDs = <<>>
  /\ s_idx = 0 /\ days = <<>> /\ observations = <<>> /\ effects = <<>>
  /\ sub_events = <<>> /\ e_pos = 0 /\ Y = <<>> /\ U = <<>> /\ T = <<>>

\* Event records: type index, start day, end day, magnitude.
EventRecords(n_types, max_day) ==
  {<<k, a, b, m>> : k \in 0..(n_types - 1), a \in 0..max_day, b \in 0..max_day,
                    m \in {2, 3}}

\* Strictly increasing day grids.
Grids(max_day, max_len) ==
  {g \in SeqsUpTo(0..max_day, 1, max_len): \A i \in 1..(Len(g) - 1): g[i] < g[i + 1]}

\* The single count row of the alignment and encoding runs tags each column
\* with its position in the table.
TagRow(n) == [c \in 1..n |-> c]

\* Time values of the alignment runs: enough for columns of one subject to
\* share a time or not.
AlignTimes == {0, 1}

\* Alignment runs: several subjects, columns in any order, repeated times.
InitAlign ==
  /\ \E n \in 1..MaxColumns:
       \E ids \in [1..n -> IdSet], times \in [1..n -> AlignTimes]:
         ParsedOtu(ids, <<times, TagRow(n)>>)
  /\ \/ NoEventFile
     \/ \E n_types \in 1..MaxTypes, m \in 0..AlignMaxEvents:
          \E ids \in [1..m -> IdSet],
             evs \in [1..m -> {<<k, 0, 1, 2>> : k \in 0..(n_types - 1)}]:
            ParsedEvents(n_types, ids, evs)
  /\ stderr = <<>>
  /\ FmtBegin
  /\ WtIdle

\* Encoding runs: one subject on a strictly increasing grid, at most one
\* event record.
InitEncode ==
  /\ \E g \in Grids(MaxDay, MaxLen):
       ParsedOtu([c \in 1..Len(g) |-> "A"], <<g, TagRow(Len(g))>>)
  /\ \/ NoEventFile
     \/ ParsedEvents(MaxTypes, <<>>, <<>>)
     \/ \E ev \in EventRecords(MaxTypes, MaxDay):
          ParsedEvents(MaxTypes, <<"A">>, <<ev>>)
  /\ stderr = <<>>
  /\ FmtBegin
  /\ WtIdle

\* Encoding runs with several event records.
InitMulti ==
  /\ \E g \in Grids(MultiMaxDay, MultiMaxLen):
       ParsedOtu([c \in 1..Len(g) |-> "A"], <<g, TagRow(Len(g))>>)
  /\ \E m \in 0..MaxEvents:
       \E evs \in [1..m -> EventRecords(MaxTypes, MultiMaxDay)]:
         ParsedEvents(MaxTypes, [r \in 1..m |-> "A"], evs)
  /\ stderr = <<>>
  /\ FmtBegin
  /\ WtIdle

---------------------------------------------------------------------------
\* write_table(IDs, Y_pred, T, otu_table, output_dir, postfix)

\* Columns of the reference table.
MaxRefCols == 2

\* Days of the predicted series (floats) and predicted rows (one taxon).
PredDays == {1, 2}
PredRows == {<<7>>, <<8>>}
\* Time cells of the reference table, as written in the file.
TimeTexts == {"1", "1.0", "2"}

\* Lines 272-274: the key of a prediction.
PredictionKey(p_id, day) == <<p_id, FloatStr(day)>>

\* Lines 280-283: the key looked up for a column of the reference table.
ColumnKeyRaw(col) == <<col[1], col[2]>>

ColumnKey(col) == <<col[1], FloatStr(FloatOf[col[2]])>>

\* Column j of in_table[:,1:].T (j as in the code, from 0).
RefColumn(tbl, j) == [r \in 1..Len(tbl) |-> tbl[r][j + 2]]

InitWrite ==
  /\ wt_pc = "predictions"
  /\ predictions = <<>>
  /\ in_table = <<>>
  /\ out_table = <<>>
  /\ w_j = 0
  /\ saved = <<>>

\* One iteration of the loops of lines 272-274: a later row for the same
\* key replaces the earlier one.
AddPrediction ==
  /\ wt_pc = "predictions"
  /\ \E p_id \in IdSet, day \in PredDays, y_pred \in PredRows:
       LET key == PredictionKey(p_id, day)
       IN  predictions' = [k \in DOMAIN predictions \cup {key} |->
                             IF k = key THEN y_pred ELSE predictions[k]]
  /\ UNCHANGED <<wt_pc, in_table, out_table, w_j, saved>>
  /\ UNCHANGED <<otuVars, evVars, stderr, fmtVars>>

\* Lines 276-277: the reference table is read as text, the output starts
\* as zeros of the same shape.
LoadReferenceTable ==
  /\ wt_pc = "predictions"
  /\ \E n \in 1..MaxRefCols:
       \E ids \in [1..n -> IdSet], times \in [1..n -> TimeTexts]:
         /\ in_table' = << <<"id">> \o ids, <<"time">> \o times,
                           <<"otu1">> \o [c \in 1..n |-> "0"] >>
         /\ out_table' = [r \in 1..3 |-> Zeros(n + 1)]
  /\ w_j' = 0
  /\ wt_pc' = "scatter"
  /\ UNCHANGED <<predictions, saved>>
  /\ UNCHANGED <<otuVars, evVars, stderr, fmtVars>>

\* One iteration of the loop of lines 279-283.
ScatterColumn ==
  /\ wt_pc = "scatter"
  /\ w_j < Len(in_table[1]) - 1
  /\ LET key == ColumnKey(RefColumn(in_table, w_j))
     IN  IF key \in DOMAIN predictions
           THEN /\ out_table' = [r \in 1..Len(out_table) |->
                                  IF r >= 3
                                    THEN [out_table[r] EXCEPT ![w_j + 2] = predictions[key][r - 2]]
                                    ELSE out_table[r]]
                /\ w_j' = w_j + 1
                /\ UNCHANGED wt_pc
           ELSE \* predictions[(p_id, day)] raises KeyError
                /\ wt_pc' = "KeyError"
                /\ UNCHANGED <<out_table, w_j>>
  /\ UNCHANGED <<predictions, in_table, saved>>
  /\ UNCHANGED <<otuVars, evVars, stderr, fmtVars>>

\* Lines 285-291: the numbers become text, the header row, the time row and
\* the label column are copied from the reference table, the file is written.
SaveTable ==
  /\ wt_pc = "scatter"
  /\ w_j = Len(in_table[1]) - 1
  /\ LET as_str == [r \in 1..Len(out_table) |->
                      [c \in 1..Len(out_table[r]) |-> FloatStr(out_table[r][c])]]
         final  == [r \in 1..Len(as_str) |->
                      [c \in 1..Len(as_str[r]) |->
                         IF r <= 2 \/ c = 1 THEN in_table[r][c] ELSE as_str[r][c]]]
     IN  /\ out_table' = final
         /\ saved' = final
  /\ wt_pc' = "saved"
  /\ UNCHANGED <<predictions, in_table, w_j>>
  /\ UNCHANGED <<otuVars, evVars, stderr, fmtVars>>

---------------------------------------------------------------------------
\* Specifications.

InitSpecOtu == InitOtu /\ EvIdle /\ stderr = <<>> /\ FmtIdle /\ WtIdle
NextOtu == ParseOtuLine \/ ReturnOtuTable
SpecOtu == InitSpecOtu /\ [][NextOtu]_vars

NextEvents == FirstPassLine \/ BuildEventIndex \/ SecondPassLine \/ ReturnEvents
InitSpecEvents == OtuIdle /\ InitEvents /\ stderr = <<>> /\ FmtIdle /\ WtIdle
SpecEvents == InitSpecEvents /\ [][NextEvents]_vars

NextFormat ==
  SortBySeq \/ AlignSubject \/ EncodeNextEvent \/ AppendSubject \/ ReturnObservations
SpecFormat == InitAlign /\ [][NextFormat]_vars
SpecEncode == InitEncode /\ [][NextFormat]_vars
SpecMulti == InitMulti /\ [][NextFormat]_vars

InitSpecWrite == OtuIdle /\ EvIdle /\ stderr = <<>> /\ FmtIdle /\ InitWrite
NextWrite == AddPrediction \/ LoadReferenceTable \/ ScatterColumn \/ SaveTable
SpecWrite == InitSpecWrite /\ [][NextWrite]_vars

---------------------------------------------------------------------------
\* Properties of parse_otu_table.

\* C5: a returned matrix has no negative count: every cell of the matrix
\* rows 1..N (the file rows after the time-point row) is non-negative.
C5_NoNegativeCount ==
  otu_pc = "returned" =>
    \A r \in 2..n_row: \A c \in 1..n_col: otu_table[r][c] >= 0

\* C6: a data line whose column count differs from the header's ends the
\* parse with the format error that names the line's file row (the header
\* being row 0, the line read at loop index idx is file row idx + 1).
C6_FormatErrorNamesRow ==
  (line # <<>> /\ Len(line) # n_col) =>
    /\ otu_pc = "exit"
    /\ stderr # <<>>
    /\ stderr[Len(stderr)] = <<"row has wrong column count", idx + 1>>

---------------------------------------------------------------------------
\* Properties of parse_event_table.

\* The type names of the lines read, and where each appears first.
NamesRead == {lines[i][2] : i \in 1..Len(lines)}
FirstLineOf(name) == SetMin({i \in 1..Len(lines): lines[i][2] = name})

\* C9: once the index is built, event_to_int is a bijection from the type
\* names of the file onto 0..n-1, event_names inverts it, a name first seen
\* earlier has the smaller index (so the mapping is determined by the lines
\* alone), and every materialised record carries the index of its line's name.
C9_DenseFirstSeenIndex ==
  ev_pc \in {"pass2", "returned"} =>
    LET n == Cardinality(NamesRead)
    IN  /\ DOMAIN event_to_int = NamesRead
        /\ {event_to_int[a] : a \in NamesRead} = 0..(n - 1)
        /\ Len(event_names) = n
        /\ \A a \in NamesRead: event_names[event_to_int[a] + 1] = a
        /\ \A a, b \in NamesRead:
             FirstLineOf(a) < FirstLineOf(b) => event_to_int[a] < event_to_int[b]
        /\ \A a \in NamesRead:
             event_to_int[a] =
               Cardinality({b \in NamesRead: FirstLineOf(b) < FirstLineOf(a)})
        /\ \A r \in 1..(IF ev_pc = "returned" THEN ev_n_row ELSE ev_idx):
             events[r][1] = event_to_int[lines[r][2]]

\* A file of three lines that introduces its types out of alphabetical
\* order and repeats one has been parsed.
C9_Witness ==
  /\ ev_pc = "returned"
  /\ Len(lines) = 3
  /\ lines[1][2] = "diet" /\ lines[2][2] = "abx" /\ lines[3][2] = "diet"
  /\ events[3][1] = 0

---------------------------------------------------------------------------
\* Properties of format_observations: the effect matrix.

\* The windowing rule, for slot i (from 1) of a day grid and an event
\* interval: a slot before the last qualifies if its day lies in
\* [start, end], or else if the interval begins at or after the day, ends at
\* or before the next day and begins strictly before the next day; the last
\* slot qualifies if the interval starts exactly on the last day.
WindowQualifies(dys, i, start, end) ==
  IF i < Len(dys)
    THEN \/ (start <= dys[i] /\ dys[i] <= end)
         \/ (dys[i] <= start /\ end <= dys[i + 1] /\ start < dys[i + 1])
    ELSE start = dys[Len(dys)]

\* Column k (an event type index) of an effect matrix.
EffectColumn(eff, k) == [i \in 1..Len(eff) |-> eff[i][k + 1]]

SingleEventRun ==
  fmt_pc = "returned" /\ event_filename # "" /\ Len(events) = 1

\* C1: for a subject with exactly one event record on a strictly increasing
\* day grid, every cell of the event's column is the magnitude where the
\* windowing rule qualifies the slot and 0 elsewhere; days [1,2,3,6] with
\* event (2,5,3) give [0,3,3,0] and days [0,10] with event (3,4,2) give [2,0].
C1_WindowingReference ==
  /\ SingleEventRun =>
       \A i \in 1..Len(T[1]):
         U[1][i][events[1][1] + 1] =
           IF WindowQualifies(T[1], i, events[1][2], events[1][3])
             THEN events[1][4] ELSE 0
  /\ EffectColumn(EncodeEvent([i \in 1..4 |-> Zeros(1)], <<1, 2, 3, 6>>, <<0, 2, 5, 3>>), 0)
       = <<0, 3, 3, 0>>
  /\ EffectColumn(EncodeEvent([i \in 1..2 |-> Zeros(1)], <<0, 10>>, <<0, 3, 4, 2>>), 0)
       = <<2, 0>>

\* A single event that lies strictly between the first two of three observed
\* days has been encoded on the first day's slot and on no other.
C1_Witness ==
  /\ SingleEventRun
  /\ Len(T[1]) = 3
  /\ T[1][1] < events[1][2] /\ events[1][2] <= events[1][3] /\ events[1][3] < T[1][2]
  /\ U[1][1][events[1][1] + 1] = events[1][4]
  /\ U[1][2][events[1][1] + 1] = 0
  /\ U[1][3][events[1][1] + 1] = 0

\* The documented preconditions of an event record on a day grid.
EventInRange(dys, ev) ==
  /\ ev[2] <= ev[3]
  /\ ev[2] >= dys[1]
  /\ ev[3] <= dys[Len(dys)]
  /\ ev[4] # 0

\* C10: a single event record that satisfies the documented preconditions
\* leaves at least one nonzero cell in its column.
C10_NoEventDropped ==
  (SingleEventRun /\ EventInRange(T[1], events[1])) =>
    \E i \in 1..Len(T[1]): U[1][i][events[1][1] + 1] # 0

\* An in-range event that covers no observed day (it starts and ends
\* strictly between two observations) is registered.
C10_Witness ==
  /\ SingleEventRun
  /\ EventInRange(T[1], events[1])
  /\ \A i \in 1..Len(T[1]): ~(events[1][2] <= T[1][i] /\ T[1][i] <= events[1][3])
  /\ \E i \in 1..Len(T[1]): U[1][i][events[1][1] + 1] = events[1][4]

\* The records of type k, in table order, that qualify for slot i.
QualifyingRecords(evs, dys, i, k) ==
  {r \in 1..Len(evs): evs[r][1] = k /\ WindowQualifies(dys, i, evs[r][2], evs[r][3])}

SetMax(S) == CHOOSE x \in S: \A y \in S: y <= x

\* C2: with several event records, every cell (i, k), the last day's row
\* included, holds the magnitude of the last record in table order of type
\* k that qualifies for slot i, and 0 if no such record exists.
C2_LastQualifyingWins ==
  fmt_pc = "returned" =>
    \A i \in 1..Len(T[1]): \A k \in 0..(Len(U[1][i]) - 1):
      LET q == QualifyingRecords(events, T[1], i, k)
      IN  U[1][i][k + 1] = IF q = {} THEN 0 ELSE events[SetMax(q)][4]

---------------------------------------------------------------------------
\* Properties of format_observations: the aligned series.

\* C3: the time vector returned for each subject is strictly increasing.
C3_TimesStrictlyIncreasing ==
  \A s \in 1..Len(T): \A i \in 1..(Len(T[s]) - 1): T[s][i] < T[s][i + 1]

\* The columns of the input table that belong to a subject and a time.
ColumnsAt(s_id, time) ==
  {c \in 1..Len(otu_seq_id): otu_seq_id[c] = s_id /\ otu_table[1][c] = time}

\* C4: the counts reported for a subject and a time are those of the first
\* column, in the original column order, of that subject with that time.
C4_FirstColumnWins ==
  \A s \in 1..Len(Y): \A d \in 1..Len(Y[s]):
    LET first == SetMin(ColumnsAt(IDs[s], T[s][d]))
    IN  Y[s][d] = [r \in 1..(Len(otu_table) - 1) |-> otu_table[r + 1][first]]

\* The event records of a subject.
EventRowsOf(s_id) == {r \in 1..Len(events): event_seq_id[r] = s_id}

\* C8: Y and U have one row per entry of T for every subject, the returned
\* lists are parallel, U has one column per event type when an event table
\* is supplied (all zero for a subject without event rows) and is a single
\* zero column otherwise.
C8_ParallelShapes ==
  /\ Len(Y) = Len(T) /\ Len(U) = Len(T)
  /\ fmt_pc = "returned" => Len(IDs) = Len(T)
  /\ \A s \in 1..Len(T):
       /\ Len(Y[s]) = Len(T[s])
       /\ Len(U[s]) = Len(T[s])
       /\ \A i \in 1..Len(U[s]):
            /\ Len(U[s][i]) = IF event_filename # ""
                                THEN Cardinality(DOMAIN event_to_int) ELSE 1
            /\ (event_filename = "" \/ EventRowsOf(IDs[s]) = {}) =>
                 \A k \in 1..Len(U[s][i]): U[s][i][k] = 0

\* Two subjects have been returned, one with two columns at the same time,
\* with an event table whose only record belongs to the other subject.
C8_Witness ==
  /\ fmt_pc = "returned"
  /\ Len(IDs) = 2
  /\ event_filename # ""
  /\ Len(T[1]) = 2 /\ T[1][1] = T[1][2]
  /\ EventRowsOf(IDs[1]) = {} /\ EventRowsOf(IDs[2]) # {}
  /\ \E i \in 1..Len(U[2]): \E k \in 1..Len(U[2][i]): U[2][i][k] # 0

---------------------------------------------------------------------------
\* Properties of write_table.

\* The key of column j (from 0) of the reference table: its subject and the
\* float its time cell denotes.
RefKey(j) == <<in_table[1][j + 2], FloatStr(FloatOf[in_table[2][j + 2]])>>

RefColumns == 0..(Len(in_table[1]) - 2)

C7_SavedReached ==
  /\ wt_pc = "saved"
  /\ Len(in_table[1]) = 3
  /\ in_table[2][2] = "1" /\ in_table[2][3] = "1.0"
  /\ saved[3][2] # saved[3][3]

====
